---- MODULE Spec2Model ----
(***************************************************************************)
(* Model of the ndarray tensor backend, burn-ndarray/src/ops/tensor.rs:    *)
(* the axis scan behind argmax/argmin, the elementwise operations           *)
(* (comparisons, mask_fill, neg, relu) and the seeded random generator      *)
(* behind the SEED mutex.                                                   *)
(*                                                                          *)
(* Elements.  An element is a pair <<kind, n>>: <<"n", k>> is the number k, *)
(* <<"inf", 1>> and <<"inf", -1>> are the two infinities and <<"nan", 0>>   *)
(* is NaN.  Signed zero is not told apart from zero.  The float types hold  *)
(* all four kinds; the integer types hold numbers only and are modelled at  *)
(* a width of IntBits bits.                                                 *)
(***************************************************************************)
EXTENDS Integers, Sequences, FiniteSets, TLC

(* ------------------------------ bounds -------------------------------- *)
MaxVal == 1
MaxRank == 2
MaxElems == 6
MaxLen == 2
IntBits == 2
NThreads == 2
MaxCalls == 3
MaxDraw == 2
NSeeds == 2

(* ------------------------------- state -------------------------------- *)
\* The call of argmax/argmin in progress.
VARIABLES
    shape,      \* tensor.shape().dims
    data,       \* NdArrayBackend::into_data(tensor).value: row-major values
    fn,         \* the operation called: "argmax" or "argmin"
    dim,        \* the axis argument (0-based)
    cmp,        \* the comparator handed to arg: "cmp_min" or "cmp_max"
    batch_size, \* tensor.shape().dims[dim]
    start,      \* loop variable
    end,        \* loop variable
    output,     \* the indices pushed so far
    out_shape,  \* shape of the returned tensor
    pc          \* "idle", "loop", "done" or "panic"

argVars == <<shape, data, fn, dim, cmp, batch_size, start, end, output, out_shape, pc>>

\* The call of an elementwise operation.
VARIABLES
    ety,    \* the element type E of the call: "float", "int" or "uint"
    op,     \* the operation called, "none" before the call
    lhs,    \* its tensor argument (the left one of two), as a flat sequence
    rhs,    \* its right tensor argument, <<>> when it has none
    mask,   \* the mask of mask_fill, <<>> otherwise
    value,  \* its scalar argument, Num(0) when it has none
    res     \* the tensor it returned

opVars == <<ety, op, lhs, rhs, mask, value, res>>

\* The process-wide SEED and the threads that call random.
VARIABLES
    seed,    \* the content of SEED: <<>> for None, <<r>> for Some(r)
    seed0,   \* the content SEED had when the process started
    fresh,   \* the generator get_seeded_rng() returns
    holder,  \* the thread that holds the lock on SEED, 0 when it is free
    tpc,     \* each thread's position in random
    want,    \* each thread's number of elements, from the shape argument
    rng,     \* each thread's local `rng`
    tensor,  \* each thread's local `tensor`, as the drawn values
    my,      \* each thread's entry of log
    log      \* one record per call, in the order the calls read SEED

randVars == <<seed, seed0, fresh, holder, tpc, want, rng, tensor, my, log>>

vars == <<argVars, opVars, randVars>>

(* ----------------------------- elements ------------------------------- *)
Num(k) == <<"n", k>>
NaN == <<"nan", 0>>
PInf == <<"inf", 1>>
NInf == <<"inf", -1>>

IsNaN(x) == x[1] = "nan"
IsInf(x) == x[1] = "inf"

\* Sign of an element that is not NaN: -1, 0 or 1.
Sgn(x) == IF IsInf(x) THEN x[2]
          ELSE IF x[2] > 0 THEN 1 ELSE IF x[2] < 0 THEN -1 ELSE 0

\* `a < b` of PartialOrd: false as soon as one side is NaN.
FLt(a, b) ==
    IF IsNaN(a) \/ IsNaN(b) THEN FALSE
    ELSE IF IsInf(a) /\ IsInf(b) THEN a[2] < b[2]
    ELSE IF IsInf(a) THEN a[2] < 0
    ELSE IF IsInf(b) THEN b[2] > 0
    ELSE a[2] < b[2]

\* `a > b`.
FGt(a, b) == FLt(b, a)

\* `a == b` of PartialEq: NaN equals nothing, itself included.
FEq(a, b) == ~IsNaN(a) /\ ~IsNaN(b) /\ a = b

\* `a <= b` and `a >= b`.
FLe(a, b) == FLt(a, b) \/ FEq(a, b)
FGe(a, b) == FLt(b, a) \/ FEq(a, b)

\* elem.to_elem::<f64>(): exact for every element of the model (f32, f64 and
\* the integers of magnitude up to 2^53 all embed in f64 unchanged).
ToF64(x) == x

\* The element types: the float types, and the signed and unsigned integer
\* types at a width of IntBits bits.
IntMin(ty) == IF ty = "int" THEN -(2 ^ (IntBits - 1)) ELSE 0
IntMax(ty) == IF ty = "int" THEN 2 ^ (IntBits - 1) - 1 ELSE 2 ^ IntBits - 1

\* Two's complement wrap-around of the integer n into the range of ty.
Wrap(ty, n) == ((n - IntMin(ty)) % (2 ^ IntBits)) + IntMin(ty)

\* The values of an element type.
Elems(ty) ==
    IF ty = "float"
    THEN {Num(k) : k \in (-MaxVal)..MaxVal} \cup {NaN, PInf, NInf}
    ELSE {Num(k) : k \in IntMin(ty)..IntMax(ty)}

\* x + y of the float types.
FAdd(x, y) ==
    IF IsNaN(x) \/ IsNaN(y) THEN NaN
    ELSE IF IsInf(x) /\ IsInf(y) THEN (IF x = y THEN x ELSE NaN)
    ELSE IF IsInf(x) THEN x
    ELSE IF IsInf(y) THEN y
    ELSE Num(x[2] + y[2])

\* x - y of the float types.
FSub(x, y) ==
    IF IsNaN(x) \/ IsNaN(y) THEN NaN
    ELSE IF IsInf(x) /\ IsInf(y) THEN (IF x = y THEN NaN ELSE x)
    ELSE IF IsInf(x) THEN x
    ELSE IF IsInf(y) THEN <<"inf", -y[2]>>
    ELSE Num(x[2] - y[2])

\* x * y of the float types.
FMul(x, y) ==
    IF IsNaN(x) \/ IsNaN(y) THEN NaN
    ELSE IF IsInf(x) \/ IsInf(y)
         THEN (IF Sgn(x) * Sgn(y) = 0 THEN NaN ELSE <<"inf", Sgn(x) * Sgn(y)>>)
    ELSE Num(x[2] * y[2])

\* The arithmetic of element type ty; the integer types wrap around.
EAdd(ty, x, y) == IF ty = "float" THEN FAdd(x, y) ELSE Num(Wrap(ty, x[2] + y[2]))
ESub(ty, x, y) == IF ty = "float" THEN FSub(x, y) ELSE Num(Wrap(ty, x[2] - y[2]))
EMul(ty, x, y) == IF ty = "float" THEN FMul(x, y) ELSE Num(Wrap(ty, x[2] * y[2]))

\* n.to_elem::<E>() of a small integer literal n.
ToElem(ty, n) == Num(n)

(* ------------------------- tensors and shapes -------------------------- *)
RECURSIVE Prod(_)
Prod(s) == IF s = <<>> THEN 1 ELSE s[1] * Prod(Tail(s))

\* Shape<D>::num_elements / array.len().
NumElements(s) == Prod(s)

RECURSIVE ShapesOfRank(_)
ShapesOfRank(r) ==
    IF r = 0 THEN {<<>>}
    ELSE {Append(s, e) : s \in ShapesOfRank(r - 1), e \in 1..MaxElems}

\* The shapes of the model: rank 1..MaxRank, positive extents, at most
\* MaxElems elements.
Shapes == {s \in UNION {ShapesOfRank(r) : r \in 1..MaxRank} : Prod(s) <= MaxElems}

\* Element values of the tensors handed to argmax/argmin.
ArgElems == {Num(k) : k \in 0..MaxVal} \cup {NaN}

HasNaN(s) == \E i \in DOMAIN s : IsNaN(s[i])

(* --------------------------- argmax/argmin ----------------------------- *)
\* core::cmp::Ordering of cmp_max: ascending order.
cmp_max(a, b) ==
    IF FLt(a, b) THEN "Less"
    ELSE IF FGt(a, b) THEN "Greater"
    ELSE "Equal"

\* core::cmp::Ordering of cmp_min: descending order.
cmp_min(a, b) ==
    IF FGt(a, b) THEN "Less"
    ELSE IF FLt(a, b) THEN "Greater"
    ELSE "Equal"

Compare(f, a, b) == IF f = "cmp_max" THEN cmp_max(a, b) ELSE cmp_min(a, b)

\* The place (1-based) element i of s takes in the stable sort of s by f:
\* behind the elements that compare Less than it and behind the earlier
\* elements that compare Equal to it.
SortedPlace(f, s, i) ==
    Cardinality({j \in DOMAIN s :
        \/ Compare(f, s[j], s[i]) = "Less"
        \/ (Compare(f, s[j], s[i]) = "Equal" /\ j < i)}) + 1

\* sorted.sort_by(&cmp) on a slice without NaN (a stable sort).
SortBy(f, s) ==
    [k \in DOMAIN s |-> s[CHOOSE i \in DOMAIN s : SortedPlace(f, s, i) = k]]

\* The values `sorted[0]` can take.  With a NaN in the slice the comparator
\* is no total order and sort_by leaves the order unspecified: any element
\* may come first.
Heads(f, row) ==
    IF HasNaN(row) THEN {ToF64(row[i]) : i \in DOMAIN row}
    ELSE {SortBy(f, [i \in DOMAIN row |-> ToF64(row[i])])[1]}

\* A scan that stops at the last element equal to max, not the first.
ScanLast(row, max) ==
    IF \E i \in DOMAIN row : FEq(ToF64(row[i]), max)
    THEN (CHOOSE i \in DOMAIN row :
            /\ FEq(ToF64(row[i]), max)
            /\ \A j \in (i + 1)..Len(row) : ~FEq(ToF64(row[j]), max)) - 1
    ELSE Len(row)

\* The inner for loop: index counts the elements passed before the first
\* one equal to max; Len(row) when none is.
Scan(row, max) ==
    IF \E i \in DOMAIN row : FEq(ToF64(row[i]), max)
    THEN (CHOOSE i \in DOMAIN row :
            /\ FEq(ToF64(row[i]), max)
            /\ \A j \in 1..(i - 1) : ~FEq(ToF64(row[j]), max)) - 1
    ELSE Len(row)

\* A loop condition that is off by one and drops the last run.
LoopCondStrict(e, len) == e < len

\* `while end <= data.value.len()`.
LoopCond(e, len) == e <= len

\* A result shape that keeps the extent of the scanned axis.
OutShapeKept(s, d) == s

\* `shape.dims[dim] = 1`.
OutShape(s, d) == [s EXCEPT ![d + 1] = 1]

ArgIdle ==
    /\ fn = "none" /\ dim = 0 /\ cmp = "none" /\ batch_size = 0
    /\ start = 0 /\ end = 0 /\ output = <<>> /\ out_shape = <<>>
    /\ pc = "idle"

InitArg ==
    /\ shape \in Shapes
    /\ data \in [1..NumElements(shape) -> ArgElems]
    /\ ArgIdle

\* arg(tensor, dim, cmp) up to the loop.
ArgEnter(name, f, d) ==
    /\ d \in 0..(Len(shape) - 1)
    /\ fn' = name
    /\ dim' = d
    /\ cmp' = f
    /\ batch_size' = shape[d + 1]
    /\ start' = 0
    /\ end' = shape[d + 1]
    /\ output' = <<>>
    /\ pc' = "loop"
    /\ UNCHANGED <<shape, data, out_shape>>
    /\ UNCHANGED <<opVars, randVars>>

\* argmax: arg(tensor, dim, cmp_min).
argmax ==
    /\ pc = "idle"
    /\ \E d \in 0..(MaxRank - 1) : ArgEnter("argmax", "cmp_min", d)

\* argmin: arg(tensor, dim, cmp_max).
argmin ==
    /\ pc = "idle"
    /\ \E d \in 0..(MaxRank - 1) : ArgEnter("argmin", "cmp_max", d)

\* One iteration of the while loop.
ArgStep ==
    /\ pc = "loop"
    /\ LoopCond(end, Len(data))
    /\ LET row == SubSeq(data, start + 1, end) IN
         \E max \in Heads(cmp, row) :
            output' = Append(output, Scan(row, max))
    /\ start' = start + batch_size
    /\ end' = end + batch_size
    /\ UNCHANGED <<shape, data, fn, dim, cmp, batch_size, out_shape, pc>>
    /\ UNCHANGED <<opVars, randVars>>

\* sort_by may panic when the comparator is no total order.
ArgSortPanic ==
    /\ pc = "loop"
    /\ LoopCond(end, Len(data))
    /\ HasNaN(SubSeq(data, start + 1, end))
    /\ pc' = "panic"
    /\ UNCHANGED <<shape, data, fn, dim, cmp, batch_size, start, end, output, out_shape>>
    /\ UNCHANGED <<opVars, randVars>>

\* The loop ends; the result is from_data(Data::new(output, shape)).
ArgFinish ==
    /\ pc = "loop"
    /\ ~LoopCond(end, Len(data))
    /\ out_shape' = OutShape(shape, dim)
    /\ pc' = "done"
    /\ UNCHANGED <<shape, data, fn, dim, cmp, batch_size, start, end, output>>
    /\ UNCHANGED <<opVars, randVars>>

NextArg == argmax \/ argmin \/ ArgStep \/ ArgSortPanic \/ ArgFinish

(* ------------------- properties of argmax / argmin -------------------- *)
\* Is x the extreme element of row for the operation: no element of row is
\* greater (argmax), resp. lower (argmin), than x.
IsExtreme(name, row, x) ==
    \A j \in DOMAIN row :
        IF name = "argmax" THEN ~FLt(x, row[j]) ELSE ~FLt(row[j], x)

\* The 0-based position of the first element of row that holds the extreme.
FirstExtreme(name, row) ==
    (CHOOSE i \in DOMAIN row :
        /\ IsExtreme(name, row, row[i])
        /\ \A j \in 1..(i - 1) : row[j] # row[i]) - 1

\* Row-major stride of axis k (1-based) in shape s.
Stride(s, k) == Prod(SubSeq(s, k + 1, Len(s)))

\* Row-major offset of the coordinates c in shape s.
RECURSIVE OffsetFrom(_, _, _)
OffsetFrom(s, c, k) ==
    IF k > Len(s) THEN 0 ELSE c[k] * Stride(s, k) + OffsetFrom(s, c, k + 1)

\* Coordinates of the row-major offset off in shape s.
CoordsOf(s, off) == [k \in 1..Len(s) |-> (off \div Stride(s, k)) % s[k]]

\* The elements along axis d (0-based) of the tensor (s, v) whose other
\* coordinates are those of entry j (0-based) of the result.
Line(s, v, d, j) ==
    LET c == CoordsOf([s EXCEPT ![d + 1] = 1], j) IN
    [p \in 1..s[d + 1] |-> v[OffsetFrom(s, [c EXCEPT ![d + 1] = p - 1], 1) + 1]]

\* C1: on a rank-1 tensor without NaN argmax(tensor, 0) returns the one index
\* of the first occurrence of the maximum, argmin(tensor, 0) that of the
\* first occurrence of the minimum.
C1_Rank1FirstOccurrence ==
    (pc = "done" /\ Len(shape) = 1 /\ ~HasNaN(data)) =>
        /\ \A i \in DOMAIN data :
              (IsExtreme(fn, data, data[i]) /\ \A j \in 1..(i - 1) : data[j] # data[i])
                  => output = <<i - 1>>
        /\ Len(output) = 1
        /\ IsExtreme(fn, data, data[output[1] + 1])

\* C1 witness: argmax over a tensor whose maximum occurs twice in a row
\* after a smaller element (the shape of [3, 5, 5, 2]) answered 1.
C1_Witness ==
    /\ pc = "done" /\ fn = "argmax" /\ shape = <<4>>
    /\ data = <<Num(0), Num(1), Num(1), Num(0)>>
    /\ output = <<1>>

\* C2: on a tensor of rank >= 2 without NaN, for every axis dim, entry j of
\* the result is the position along dim of the first element equal to the
\* extreme of the line through the coordinates of j.
C2_EveryAxisFirstOccurrence ==
    (pc = "done" /\ Len(shape) >= 2 /\ ~HasNaN(data)) =>
        /\ Len(output) = Prod([shape EXCEPT ![dim + 1] = 1])
        /\ \A j \in 1..Len(output) :
              output[j] = FirstExtreme(fn, Line(shape, data, dim, j - 1))

\* C8: the result has the input's shape with the extent of dim replaced by
\* 1, and holds as many indices as that shape has elements.
C8_ResultShape ==
    pc = "done" =>
        /\ Len(out_shape) = Len(shape)
        /\ out_shape[dim + 1] = 1
        /\ \A k \in DOMAIN shape : k # dim + 1 => out_shape[k] = shape[k]
        /\ Len(output) = NumElements(out_shape)

\* C8 witness: a finished scan along the first of two axes of extents 2, 3.
C8_Witness ==
    /\ pc = "done" /\ shape = <<2, 3>> /\ dim = 0
    /\ out_shape = <<1, 3>> /\ Len(output) = 3

\* C10: without NaN the loop runs element_count / extent(dim) times and
\* then stops, and every index it emits is in 0 .. extent(dim) - 1.
C10_LoopBoundsAndIndexRange ==
    (pc \in {"loop", "done"} /\ ~HasNaN(data)) =>
        /\ \A i \in DOMAIN output : output[i] \in 0..(shape[dim + 1] - 1)
        /\ Len(output) * batch_size = start
        /\ end = start + batch_size
        /\ start <= Len(data)
        /\ pc = "loop" => (ENABLED ArgStep \/ ENABLED ArgFinish)
        /\ pc = "done" => Len(output) = NumElements(shape) \div shape[dim + 1]

\* C10 witness: a finished scan of several runs whose extremes sit at the
\* last position of the run.
C10_Witness ==
    /\ pc = "done" /\ ~HasNaN(data) /\ shape = <<2, 2>> /\ dim = 1
    /\ output = <<1, 1>>

(* ------------------------ elementwise operations ----------------------- *)
\* Tensors of n elements of type ty.
Tensors(ty, n) == [1..n -> Elems(ty)]

\* NdArrayMathOps::add, sub and mul_scalar: the elementwise map.
NdArrayMathOps_add(ty, l, r) == [i \in DOMAIN l |-> EAdd(ty, l[i], r[i])]
NdArrayMathOps_sub(ty, l, r) == [i \in DOMAIN l |-> ESub(ty, l[i], r[i])]
NdArrayMathOps_mul_scalar(ty, l, k) == [i \in DOMAIN l |-> EMul(ty, l[i], k)]

add(ty, l, r) == NdArrayMathOps_add(ty, l, r)
sub(ty, l, r) == NdArrayMathOps_sub(ty, l, r)
mul_scalar(ty, l, k) == NdArrayMathOps_mul_scalar(ty, l, k)

\* A neg that multiplies by 1.
neg_by_one(ty, t) == mul_scalar(ty, t, ToElem(ty, 1))

\* neg: mul_scalar(tensor, (-1f32).to_elem()).
neg(ty, t) == mul_scalar(ty, t, ToElem(ty, -1))

\* mask_fill: (tensor.array * mask_mul) + mask_add.
mask_fill(ty, t, m, v) ==
    LET mask_mul == [i \in DOMAIN m |-> IF m[i] THEN ToElem(ty, 0) ELSE ToElem(ty, 1)]
        mask_add == [i \in DOMAIN m |-> IF m[i] THEN v ELSE ToElem(ty, 0)]
    IN  [i \in DOMAIN t |-> EAdd(ty, EMul(ty, t[i], mask_mul[i]), mask_add[i])]

\* A relu with the comparison the wrong way round.
relu_flipped(ty, t) ==
    [i \in DOMAIN t |-> IF FLt(ToElem(ty, 0), t[i]) THEN ToElem(ty, 0) ELSE t[i]]

\* relu: elem < zero gives zero, anything else the element itself.
relu(ty, t) ==
    [i \in DOMAIN t |-> IF FLt(t[i], ToElem(ty, 0)) THEN ToElem(ty, 0) ELSE t[i]]

\* The scalar comparisons: mapv of the comparison with rhs.
equal_scalar(ty, l, k) == [i \in DOMAIN l |-> FEq(l[i], k)]
greater_scalar(ty, l, k) == [i \in DOMAIN l |-> FGt(l[i], k)]
greater_equal_scalar(ty, l, k) == [i \in DOMAIN l |-> FGe(l[i], k)]
lower_scalar(ty, l, k) == [i \in DOMAIN l |-> FLt(l[i], k)]
lower_equal_scalar(ty, l, k) == [i \in DOMAIN l |-> FLe(l[i], k)]

\* The tensor comparisons: subtract, then compare with zero.
equal(ty, l, r) == equal_scalar(ty, sub(ty, l, r), ToElem(ty, 0))
greater(ty, l, r) == greater_scalar(ty, sub(ty, l, r), ToElem(ty, 0))
greater_equal(ty, l, r) == greater_equal_scalar(ty, sub(ty, l, r), ToElem(ty, 0))
lower(ty, l, r) == lower_scalar(ty, sub(ty, l, r), ToElem(ty, 0))
lower_equal(ty, l, r) == lower_equal_scalar(ty, sub(ty, l, r), ToElem(ty, 0))

OpsIdle ==
    /\ ety = "float" /\ op = "none" /\ lhs = <<>> /\ rhs = <<>>
    /\ mask = <<>> /\ value = Num(0) /\ res = <<>>

\* The element types of the arithmetic calls and of the comparison calls.
ArithTypes == {"float", "int"}
CmpTypes == {"int", "uint", "float"}

\* The arguments of one call, drawn for the element types in `types`: a
\* tensor, and with it either a second tensor of the same shape, or a mask
\* of the same shape and a scalar, or a scalar alone.
InitCall(types) ==
    /\ ety \in types
    /\ \E n \in 1..MaxLen :
        /\ lhs \in Tensors(ety, n)
        /\ \/ rhs \in Tensors(ety, n) /\ mask = <<>> /\ value = Num(0)
           \/ rhs = <<>> /\ mask \in [1..n -> BOOLEAN] /\ value \in Elems(ety)
           \/ rhs = <<>> /\ mask = <<>> /\ value \in Elems(ety)
    /\ op = "none"
    /\ res = <<>>

\* The call `name` returns `result`.
Return(name, result) ==
    /\ op = "none"
    /\ op' = name
    /\ res' = result
    /\ UNCHANGED <<ety, lhs, rhs, mask, value>>
    /\ UNCHANGED <<argVars, randVars>>

HasRhs == rhs # <<>>
HasMask == mask # <<>>
HasScalar == rhs = <<>> /\ mask = <<>>

AddCall == HasRhs /\ Return("add", add(ety, lhs, rhs))
SubCall == HasRhs /\ Return("sub", sub(ety, lhs, rhs))
MulScalarCall == HasScalar /\ Return("mul_scalar", mul_scalar(ety, lhs, value))
NegCall == HasScalar /\ Return("neg", neg(ety, lhs))
ReluCall == HasScalar /\ Return("relu", relu(ety, lhs))
MaskFillCall == HasMask /\ Return("mask_fill", mask_fill(ety, lhs, mask, value))

EqualCall == HasRhs /\ Return("equal", equal(ety, lhs, rhs))
GreaterCall == HasRhs /\ Return("greater", greater(ety, lhs, rhs))
GreaterEqualCall == HasRhs /\ Return("greater_equal", greater_equal(ety, lhs, rhs))
LowerCall == HasRhs /\ Return("lower", lower(ety, lhs, rhs))
LowerEqualCall == HasRhs /\ Return("lower_equal", lower_equal(ety, lhs, rhs))

EqualScalarCall ==
    HasScalar /\ Return("equal_scalar", equal_scalar(ety, lhs, value))
GreaterScalarCall ==
    HasScalar /\ Return("greater_scalar", greater_scalar(ety, lhs, value))
GreaterEqualScalarCall ==
    HasScalar /\ Return("greater_equal_scalar", greater_equal_scalar(ety, lhs, value))
LowerScalarCall ==
    HasScalar /\ Return("lower_scalar", lower_scalar(ety, lhs, value))
LowerEqualScalarCall ==
    HasScalar /\ Return("lower_equal_scalar", lower_equal_scalar(ety, lhs, value))

(* --------------------------- random and SEED --------------------------- *)
\* A generator state is a pair <<g, k>>: the generator seeded with g after
\* k samples were taken from it.  Sample(r) is the value it yields next; no
\* two generator states yield the same value.
Threads == 1..NThreads
Generators == {<<g, 0>> : g \in 1..NSeeds}

Sample(r) == r
Advance(r) == <<r[1], r[2] + 1>>

\* Data::random(shape, distribution, &mut rng): one sample per element; the
\* pair of the values drawn and the generator state left.
RECURSIVE DataRandom(_, _)
DataRandom(n, r) ==
    IF n = 0 THEN <<<<>>, r>>
    ELSE LET rest == DataRandom(n - 1, Advance(r))
         IN  <<(<<Sample(r)>> \o rest[1]), rest[2]>>

NoRng == <<0, 0>>

RandIdle ==
    /\ holder = 0
    /\ tpc = [t \in Threads |-> "idle"]
    /\ want = [t \in Threads |-> 0]
    /\ rng = [t \in Threads |-> NoRng]
    /\ tensor = [t \in Threads |-> <<>>]
    /\ my = [t \in Threads |-> 0]
    /\ log = <<>>

InitRand ==
    /\ seed \in {<<>>} \cup {<<r>> : r \in Generators}
    /\ seed0 = seed
    /\ fresh \in Generators
    /\ RandIdle

\* A thread calls random with a shape of n elements.
Call(t, n) ==
    /\ tpc[t] = "idle"
    /\ Len(log) + Cardinality({u \in Threads : tpc[u] \in {"lock", "clone"}}) < MaxCalls
    /\ tpc' = [tpc EXCEPT ![t] = "lock"]
    /\ want' = [want EXCEPT ![t] = n]
    /\ UNCHANGED <<seed, seed0, fresh, holder, rng, tensor, my, log>>
    /\ UNCHANGED <<argVars, opVars>>

\* A lock that is taken whether or not another thread holds it.
LockUnguarded(t) ==
    /\ tpc[t] = "lock"
    /\ holder' = t
    /\ tpc' = [tpc EXCEPT ![t] = "clone"]
    /\ UNCHANGED <<seed, seed0, fresh, want, rng, tensor, my, log>>
    /\ UNCHANGED <<argVars, opVars>>

\* SEED.lock().unwrap(): blocks while another thread holds the lock.
Lock(t) ==
    /\ tpc[t] = "lock"
    /\ holder = 0
    /\ holder' = t
    /\ tpc' = [tpc EXCEPT ![t] = "clone"]
    /\ UNCHANGED <<seed, seed0, fresh, want, rng, tensor, my, log>>
    /\ UNCHANGED <<argVars, opVars>>

\* let mut rng = the clone of the stored generator, or a freshly seeded one.
Clone(t) ==
    /\ tpc[t] = "clone"
    /\ LET r == IF seed # <<>> THEN seed[1] ELSE fresh IN
        /\ rng' = [rng EXCEPT ![t] = r]
        /\ log' = Append(log, [thread |-> t, n |-> want[t], from |-> r,
                               to |-> NoRng, out |-> <<>>])
    /\ my' = [my EXCEPT ![t] = Len(log) + 1]
    /\ tpc' = [tpc EXCEPT ![t] = "draw"]
    /\ UNCHANGED <<seed, seed0, fresh, holder, want, tensor>>
    /\ UNCHANGED <<argVars, opVars>>

\* let tensor = from_data(Data::random(shape, distribution, &mut rng)).
Draw(t) ==
    /\ tpc[t] = "draw"
    /\ LET d == DataRandom(want[t], rng[t]) IN
        /\ tensor' = [tensor EXCEPT ![t] = d[1]]
        /\ rng' = [rng EXCEPT ![t] = d[2]]
    /\ tpc' = [tpc EXCEPT ![t] = "store"]
    /\ UNCHANGED <<seed, seed0, fresh, holder, want, my, log>>
    /\ UNCHANGED <<argVars, opVars>>

\* A store that leaves SEED as it was.
StoreDropped(t) ==
    /\ tpc[t] = "store"
    /\ log' = [log EXCEPT ![my[t]].to = rng[t], ![my[t]].out = tensor[t]]
    /\ tpc' = [tpc EXCEPT ![t] = "ret"]
    /\ UNCHANGED <<seed, seed0, fresh, holder, want, rng, tensor, my>>
    /\ UNCHANGED <<argVars, opVars>>

\* *seed = Some(rng).
Store(t) ==
    /\ tpc[t] = "store"
    /\ seed' = <<rng[t]>>
    /\ log' = [log EXCEPT ![my[t]].to = rng[t], ![my[t]].out = tensor[t]]
    /\ tpc' = [tpc EXCEPT ![t] = "ret"]
    /\ UNCHANGED <<seed0, fresh, holder, want, rng, tensor, my>>
    /\ UNCHANGED <<argVars, opVars>>

\* The function returns tensor; the guard `seed` is dropped and with it the
\* lock released.
Unlock(t) ==
    /\ tpc[t] = "ret"
    /\ holder' = 0
    /\ tpc' = [tpc EXCEPT ![t] = "idle"]
    /\ UNCHANGED <<seed, seed0, fresh, want, rng, tensor, my, log>>
    /\ UNCHANGED <<argVars, opVars>>

NextRand ==
    \E t \in Threads :
        \/ \E n \in 1..MaxDraw : Call(t, n)
        \/ Lock(t)
        \/ Clone(t)
        \/ Draw(t)
        \/ Store(t)
        \/ Unlock(t)

RandUnused ==
    /\ seed = <<>> /\ seed0 = <<>> /\ fresh = <<1, 0>>
    /\ RandIdle

OpsUnused == OpsIdle

ArgUnused == shape = <<1>> /\ data = <<Num(0)>> /\ ArgIdle


(* --------------- properties of the elementwise operations -------------- *)
\* The direct comparisons of two integer elements.
DirectCompare(name, x, y) ==
    CASE name = "equal" -> x[2] = y[2]
      [] name = "greater" -> x[2] > y[2]
      [] name = "greater_equal" -> x[2] >= y[2]
      [] name = "lower" -> x[2] < y[2]
      [] name = "lower_equal" -> x[2] <= y[2]

TensorCompares == {"equal", "greater", "greater_equal", "lower", "lower_equal"}

\* C3: mask_fill(tensor, mask, value) is the elementwise select: value where
\* the mask is true, the tensor's own element where it is false.
C3_MaskFillIsSelect ==
    op = "mask_fill" =>
        /\ Len(res) = Len(lhs)
        /\ \A i \in DOMAIN lhs : res[i] = IF mask[i] THEN value ELSE lhs[i]

\* C4: on the integer element types, signed or unsigned, each tensor
\* comparison returns at every position the truth value of the direct
\* comparison of the two elements.
C4_CompareIsDirect ==
    (op \in TensorCompares /\ ety \in {"int", "uint"}) =>
        /\ Len(res) = Len(lhs)
        /\ \A i \in DOMAIN lhs : res[i] = DirectCompare(op, lhs[i], rhs[i])

\* C7: sub(a, b) equals add(a, neg(b)) at every position, and neg(neg(t))
\* equals t.
C7_SubIsAddNeg ==
    /\ op = "sub" => res = add(ety, lhs, neg(ety, rhs))
    /\ op = "neg" => neg(ety, res) = lhs

\* C7 witness: a subtraction of two tensors that differ at every position
\* from each other and from zero.
C7_Witness ==
    /\ op = "sub" /\ ety = "float"
    /\ lhs = <<Num(1), Num(-1)>> /\ rhs = <<Num(-1), Num(1)>>
    /\ res = <<Num(2), Num(-2)>>

\* C9 as stated: relu gives x where x >= 0 and 0 otherwise, is idempotent,
\* and every element it returns is >= 0.
C9_ReluAsStated ==
    op = "relu" =>
        /\ Len(res) = Len(lhs)
        /\ \A i \in DOMAIN lhs :
              res[i] = IF FGe(lhs[i], Num(0)) THEN lhs[i] ELSE Num(0)
        /\ relu(ety, res) = res
        /\ \A i \in DOMAIN res : FGe(res[i], Num(0))

\* C9 amended: relu gives x where x >= 0, 0 where x < 0 and NaN where x is
\* NaN; it is idempotent, and every element it returns that is not NaN is
\* >= 0.
C9_ReluKeepsNaN ==
    op = "relu" =>
        /\ Len(res) = Len(lhs)
        /\ \A i \in DOMAIN lhs :
              /\ FGe(lhs[i], Num(0)) => res[i] = lhs[i]
              /\ FLt(lhs[i], Num(0)) => res[i] = Num(0)
              /\ IsNaN(lhs[i]) => IsNaN(res[i])
        /\ relu(ety, res) = res
        /\ \A i \in DOMAIN res : ~IsNaN(res[i]) => FGe(res[i], Num(0))

\* C9 witness: relu of a tensor that holds a NaN next to a negative number.
C9_Witness ==
    /\ op = "relu" /\ lhs = <<NaN, Num(-1)>> /\ res = <<NaN, Num(0)>>

(* --------------------- properties of random and SEED -------------------- *)
\* The threads between taking the lock and giving it back.
InCritical(t) == tpc[t] \in {"clone", "draw", "store", "ret"}

\* The generator the first call starts from.
FirstRng == IF seed0 # <<>> THEN seed0[1] ELSE fresh

\* The number of samples the calls before entry k of the log asked for.
RECURSIVE DrawnBefore(_)
DrawnBefore(k) == IF k <= 1 THEN 0 ELSE DrawnBefore(k - 1) + log[k - 1].n

\* The tensor the k-th call returns when the calls are made one after the
\* other from the generator g: value i of it is sample number
\* DrawnBefore(k) + i of g.
ExpectedOut(g, k) ==
    [i \in 1..log[k].n |-> <<g[1], g[2] + DrawnBefore(k) + i - 1>>]

\* C5: calls of random exclude each other on SEED: at most one thread is
\* between lock and unlock, no two calls read the same generator state,
\* SEED keeps the state a call read until that call stores its own, and a
\* state stored is the one its call's draw left.
C5_MutualExclusion ==
    /\ \A t, u \in Threads : (InCritical(t) /\ InCritical(u)) => t = u
    /\ \A t \in Threads : InCritical(t) => holder = t
    /\ \A i, j \in DOMAIN log : log[i].from = log[j].from => i = j
    /\ \A t \in Threads :
          tpc[t] \in {"draw", "store"} =>
              \/ seed = <<log[my[t]].from>>
              \/ seed = <<>> /\ log[my[t]].from = fresh
    /\ \A t \in Threads : tpc[t] = "ret" => seed = <<rng[t]>>

\* C5 witness: a thread waits for the lock while another, which started
\* from the state a third call stored, is about to store its own.
C5_Witness ==
    \E t, u \in Threads :
        /\ tpc[t] = "store" /\ tpc[u] = "lock"
        /\ Len(log) >= 2 /\ log[1].thread = u

\* C6: SEED holds the state the most recent draw left; each call starts
\* from the state the call before it stored, the first from the initial
\* generator; and the tensors returned are those the same calls return when
\* made one after the other from that initial generator.
C6_SeedChain ==
    /\ \A k \in DOMAIN log :
          /\ log[k].from = IF k = 1 THEN FirstRng ELSE log[k - 1].to
          /\ log[k].to # NoRng => log[k].out = ExpectedOut(FirstRng, k)
          /\ log[k].to # NoRng => Len(log[k].out) = log[k].n
    /\ (log # <<>> /\ log[Len(log)].to # NoRng) => seed = <<log[Len(log)].to>>
    /\ (\A t \in Threads : tpc[t] \in {"idle", "lock"}) =>
          seed = IF log = <<>> THEN seed0 ELSE <<log[Len(log)].to>>

\* C6 witness: three finished calls, of two threads, with SEED None at the
\* start.
C6_Witness ==
    /\ seed0 = <<>> /\ Len(log) = 3
    /\ log[1].thread # log[2].thread
    /\ \A t \in Threads : tpc[t] = "idle"
    /\ seed = <<log[3].to>>

(* --------------------------- specifications --------------------------- *)
InitArgSpec == InitArg /\ OpsUnused /\ RandUnused
SpecArg == InitArgSpec /\ [][NextArg]_vars

InitOps == InitCall(ArithTypes) /\ ArgUnused /\ RandUnused
NextOps == AddCall \/ SubCall \/ MulScalarCall \/ NegCall \/ ReluCall \/ MaskFillCall
SpecOps == InitOps /\ [][NextOps]_vars

InitCmp == InitCall(CmpTypes) /\ ArgUnused /\ RandUnused
NextCmp ==
    \/ EqualCall \/ GreaterCall \/ GreaterEqualCall \/ LowerCall \/ LowerEqualCall
    \/ EqualScalarCall \/ GreaterScalarCall \/ GreaterEqualScalarCall
    \/ LowerScalarCall \/ LowerEqualScalarCall
SpecCmp == InitCmp /\ [][NextCmp]_vars

InitRandSpec == InitRand /\ ArgUnused /\ OpsUnused
SpecRand == InitRandSpec /\ [][NextRand]_vars

====
